---- MODULE Spec2Model ----
\* Verification model of the coachable-course-agent repository:
\*   - the feedback-driven recommendation loop of
\*     profile_and_recommendation_demo.ipynb (build profile, load, retrieve,
\*     justify, present, collect feedback, request new recommendations),
\*     together with the profile store data/memory/{user_id}.json and the
\*     memory editor described in instructions.md;
\*   - the GradioOutputManager documented in GRADIO_OUTPUT_MANAGER.md and the
\*     handlers that return through it;
\*   - the shell scripts pipeline.sh and scrape.sh.
EXTENDS Integers, Sequences, FiniteSets, TLC

\* ---------------------------------------------------------------- bounds
\* Number of courses in the collection of the loop specification.
NumCourses == 2
\* Largest collection of the retrieval specification (more than top_n).
MaxCatalog == 11
\* Most recommendations the justification chain returns for one batch.
MaxBatch == 2
\* Most process_feedback calls in one run (also the range of timestamps).
MaxFeedback == 2
\* Most batches generated in one run.
MaxCycles == 2
\* Longest schema of a GradioOutputManager.
MaxSchema == 2
\* Most keyword arguments of one set_multiple call.
MaxKwargs == 2

\* ------------------------------------------------------ program constants
\* top_n=10 in both calls of query_similar_courses.
TopN == 10

\* ------------------------------------------------------------ input sets
Users == {"test_user", "other_user"}
Goals == {"team lead", "data scientist"}
Bios == {"bio_a", "bio_b"}
\* The feedback kinds the README lists.
FeedbackKinds == {"approve", "adjust", "reject", "suggest"}
\* What the user may type at the two prompts of input(), "Feedback?" and
\* "Reason (optional)": free text, the second and the fourth as in the
\* feedback_log the notebook prints.
UserInputs == {<<"approve", "looks good">>, <<"reject", "">>, <<"", "">>}

VARIABLES
    user_id,            \* the notebook's user_id
    store,              \* data/memory/{user_id}.json, one profile per user
    courses_collection, \* the courses vector store (set of course ids)
    user_profile,       \* the notebook's user_profile (loaded copy)
    retrieved_courses,  \* the notebook's retrieved_courses
    recommendations,    \* the notebook's recommendations (current batch)
    pc,                 \* position in the notebook
    idx,                \* position of collect_feedback's for loop
    clock,              \* source of timestamps: number of feedback calls so far
    cycle,              \* number of batches generated so far
    llm_request,        \* content of the last request sent to the LLM
    op,                 \* name of the last operation that ran
    trace,              \* operations of the current cycle, in order
    live_fb,            \* entries process_feedback recorded for user_id and
                        \* the user has not deleted in the memory editor
    om_schema,          \* GradioOutputManager.output_names
    om_values,          \* GradioOutputManager.values
    om_last,            \* per name, the last value assigned since construction or reset
    om_args,            \* the (name, value) arguments of the last call
    om_ret,             \* the tuple the last call returned, if it was get_tuple
    om_error,           \* whether the last call raised ValueError
    om_cleared,         \* how many assigned values the last call cleared, if it was reset
    sh_script,          \* the shell script that runs: "pipeline", "scrape" or "none"
    sh_env,             \* the files, directories and commands that exist
    sh_argv,            \* the arguments the script was started with
    sh_args,            \* the positional parameters "$@" as they are now
    sh_pc,              \* position in the script
    sh_status,          \* $?, the exit status of the last command
    sh_exit,            \* exit status of the script, -1 while it runs
    sh_out,             \* the messages printed so far, in order
    sh_tests,           \* the prerequisite checks made so far, in order
    sh_calls,           \* the python commands invoked so far, in order
    child_status,       \* exit status of the invoked python command, -1 before it ends
    orch_trace,         \* the pipeline steps the orchestrator has run, in order
    DRY_RUN,            \* scrape.sh: DRY_RUN
    TOPIC,              \* scrape.sh: TOPIC
    PLATFORM,           \* scrape.sh: PLATFORM
    CONFIG_FILE,        \* scrape.sh: CONFIG_FILE
    CMD,                \* scrape.sh: CMD
    sc_opts,            \* scrape.sh: the options the parser recognised, in order
    h_name,             \* the Gradio handler that runs, "none" if none
    h_in,               \* the values the handler computed for its outputs
    h_pc                \* position in the handler

omVars == <<om_schema, om_values, om_last, om_args, om_ret, om_error, om_cleared>>
vars == <<user_id, store, courses_collection, user_profile, retrieved_courses,
          recommendations, pc, idx, clock, cycle, llm_request, op, trace, live_fb,
          om_schema, om_values, om_last, om_args, om_ret, om_error, om_cleared,
          sh_script, sh_env, sh_argv, sh_args, sh_pc, sh_status, sh_exit, sh_out,
          sh_tests, sh_calls, child_status, orch_trace,
          DRY_RUN, TOPIC, PLATFORM, CONFIG_FILE, CMD, sc_opts,
          h_name, h_in, h_pc>>
shVars == <<sh_script, sh_env, sh_argv, sh_args, sh_pc, sh_status, sh_exit, sh_out,
            sh_tests, sh_calls, child_status, orch_trace,
            DRY_RUN, TOPIC, PLATFORM, CONFIG_FILE, CMD, sc_opts>>
hVars == <<h_name, h_in, h_pc>>

\* --------------------------------------------------------------- helpers
Range(s) == {s[i] : i \in 1..Len(s)}

RECURSIVE Arrangements(_, _)
\* The sequences without repetition of at most k elements of S.
Arrangements(S, k) ==
    IF k = 0 THEN {<<>>}
    ELSE LET prev == Arrangements(S, k - 1)
             full == {p \in prev : Len(p) = k - 1}
         IN prev \cup UNION {{Append(p, x) : x \in S \ Range(p)} : p \in full}

\* ------------------------------------------------------------ memory store
\* No file data/memory/{user_id}.json.
NoProfile == [user_id |-> "", goal |-> "", feedback_log |-> <<>>]

NewProfile(uid, goal) == [user_id |-> uid, goal |-> goal, feedback_log |-> <<>>]

load_user_profile(st, uid) == st[uid]

save_user_profile(st, uid, profile) == [st EXCEPT ![uid] = profile]

\* ------------------------------------------------------ feedback processor
FeedbackEntry(course_id, feedback_type, reason, now) ==
    [course_id |-> course_id, feedback_type |-> feedback_type,
     reason |-> reason, timestamp |-> now]

\* The mutated processor keeps only the newest entry.
process_feedback_overwrite(st, uid, course_id, feedback_type, reason, now) ==
    LET profile == load_user_profile(st, uid)
        entry == FeedbackEntry(course_id, feedback_type, reason, now)
    IN save_user_profile(st, uid, [profile EXCEPT !.feedback_log = <<entry>>])

\* The mutated processor puts the new entry in front of the older ones.
process_feedback_prepend(st, uid, course_id, feedback_type, reason, now) ==
    LET profile == load_user_profile(st, uid)
        entry == FeedbackEntry(course_id, feedback_type, reason, now)
    IN save_user_profile(st, uid,
           [profile EXCEPT !.feedback_log = <<entry>> \o @])

\* process_feedback(user_id, course_id, feedback_type, reason): load the user's
\* profile, append one entry to its feedback_log, save the profile.
process_feedback(st, uid, course_id, feedback_type, reason, now) ==
    LET profile == load_user_profile(st, uid)
        entry == FeedbackEntry(course_id, feedback_type, reason, now)
    IN save_user_profile(st, uid,
           [profile EXCEPT !.feedback_log = Append(@, entry)])

\* ------------------------------------------------------------ vector store
\* Embedding distance of a course to the query built from the profile.
Distance(profile, c) == IF profile.goal = "data scientist" THEN 0 - c ELSE c

RECURSIVE NearestFirst(_, _)
\* The courses of a collection, nearest to the profile first.
NearestFirst(collection, profile) ==
    IF collection = {} THEN <<>>
    ELSE LET best == CHOOSE c \in collection :
                         \A d \in collection : Distance(profile, c) <= Distance(profile, d)
         IN <<best>> \o NearestFirst(collection \ {best}, profile)

\* query_similar_courses(collection, user_profile, top_n): the top_n courses of
\* the collection most similar to the profile, most similar first.
query_similar_courses(collection, profile, top_n) ==
    LET ranked == NearestFirst(collection, profile)
    IN SubSeq(ranked, 1, IF Len(ranked) < top_n THEN Len(ranked) ELSE top_n)

\* --------------------------------------------------------- justifier chain
Recommendation(c, profile) == [course_id |-> c, justification |-> profile.goal]

\* The request justify_recommendations sends to the LLM: the prompt is built
\* from the profile and the candidates.
JustifyRequest(profile, retrieved) ==
    [purpose |-> "justify", user_id |-> profile.user_id, bio |-> "",
     profile |-> profile, courses |-> retrieved]

\* justify_recommendations(user_profile, retrieved_courses): what the LLM may
\* answer: a ranked, explained selection of the candidates it was given.
justify_recommendations(profile, retrieved) ==
    {[i \in 1..Len(sel) |-> Recommendation(sel[i], profile)] :
        sel \in Arrangements(Range(retrieved), MaxBatch)}

\* ------------------------------------------------------- profile building
\* The request agent.invoke sends to the LLM: the prompt
\* "My user ID is {user_id}. Here is my bio: {linkedin_blurb}".
BuildRequest(uid, bio) ==
    [purpose |-> "build_profile", user_id |-> uid, bio |-> bio,
     profile |-> NoProfile, courses |-> <<>>]

NoRequest == [purpose |-> "none", user_id |-> "", bio |-> "",
              profile |-> NoProfile, courses |-> <<>>]

\* --------------------------------------------------- GradioOutputManager
\* Output names: three of FEEDBACK_OUTPUTS.
OMNames == {"recommendations", "keep_btn", "chatbox"}
\* Values a handler assigns (gr.update(...) objects, state values).
OMValues == {"v1", "v2"}
\* Python's None.
None == "None"

\* __init__(output_names): every output of the schema starts as None.
om_init(output_names) == [n \in Range(output_names) |-> None]

\* set without the check of the name: the value is stored under any name.
om_set_unchecked(values, name, value) ==
    [values |-> [n \in DOMAIN values \cup {name} |->
                    IF n = name THEN value ELSE values[n]],
     error |-> FALSE]

\* set(name, value): ValueError for a name that is not in the schema,
\* otherwise the value is stored under the name.
om_set(values, name, value) ==
    IF name \in DOMAIN values
    THEN [values |-> [values EXCEPT ![name] = value], error |-> FALSE]
    ELSE [values |-> values, error |-> TRUE]

\* set_multiple that stores the k-th keyword argument at the k-th output of
\* the schema, as a hand-ordered tuple does.
om_set_multiple_positional(values, kwargs) ==
    [values |-> [n \in DOMAIN values |->
                    IF \E i \in 1..Len(kwargs) : i <= Len(om_schema) /\ om_schema[i] = n
                    THEN kwargs[CHOOSE i \in 1..Len(kwargs) :
                                    i <= Len(om_schema) /\ om_schema[i] = n][2]
                    ELSE values[n]],
     error |-> \E i \in 1..Len(kwargs) : kwargs[i][1] \notin DOMAIN values]

RECURSIVE om_set_multiple_loop(_, _)
om_set_multiple_loop(values, kwargs) ==
    IF kwargs = <<>> THEN [values |-> values, error |-> FALSE]
    ELSE LET r == om_set(values, kwargs[1][1], kwargs[1][2])
         IN IF r.error THEN r ELSE om_set_multiple_loop(r.values, Tail(kwargs))

\* set_multiple(**kwargs): set for each keyword argument, in the order given.
om_set_multiple(values, kwargs) == om_set_multiple_loop(values, kwargs)

\* get_tuple(): the values in the order of the schema.
om_get_tuple(values, output_names) ==
    [i \in 1..Len(output_names) |-> values[output_names[i]]]

\* reset that returns self and clears nothing.
om_reset_noop(values) == values

\* reset(): every value back to None.
om_reset(values) == [n \in DOMAIN values |-> None]

\* The keyword arguments of a call: (name, value) pairs with distinct names.
Kwargs(k) ==
    UNION {{[i \in 1..Len(ns) |-> <<ns[i], vs[i]>>] : vs \in [1..Len(ns) -> OMValues]} :
              ns \in Arrangements(OMNames, k)}

\* The arguments that were assigned before the call ended: all of them, or
\* those before the first name that is not in the schema.
RECURSIVE AssignedPrefix(_, _)
AssignedPrefix(kwargs, names) ==
    IF kwargs = <<>> \/ kwargs[1][1] \notin names THEN <<>>
    ELSE <<kwargs[1]>> \o AssignedPrefix(Tail(kwargs), names)

\* The last value a sequence of assignments gave to a name, or old.
LastAssigned(assigned, n, old) ==
    IF \E i \in 1..Len(assigned) : assigned[i][1] = n
    THEN assigned[CHOOSE i \in 1..Len(assigned) :
                      /\ assigned[i][1] = n
                      /\ \A j \in (i + 1)..Len(assigned) : assigned[j][1] # n][2]
    ELSE old

\* ------------------------------------------------------------------ trace
Step(name, c) == [op |-> name, course |-> c]

\* --------------------------------------------------------- initial states
\* A profile another session stored earlier for another user.
StoredProfile(u) ==
    [user_id |-> u, goal |-> "team lead",
     feedback_log |-> <<FeedbackEntry(1, "approve", "", 0)>>]

\* The notebook before the "Build your profile" cells: the user has no profile
\* yet, another user has one. No GradioOutputManager is in use.
Init ==
    /\ user_id \in Users
    /\ store = [u \in Users |-> IF u = user_id THEN NoProfile ELSE StoredProfile(u)]
    /\ courses_collection = 1..NumCourses
    /\ user_profile = NoProfile
    /\ retrieved_courses = <<>>
    /\ recommendations = <<>>
    /\ pc = "start"
    /\ idx = 0
    /\ clock = 0
    /\ cycle = 0
    /\ llm_request = NoRequest
    /\ op = "init"
    /\ trace = <<>>
    /\ live_fb = <<>>
    /\ om_schema = <<>>
    /\ om_values = <<>>
    /\ om_last = <<>>
    /\ om_args = <<>>
    /\ om_ret = <<>>
    /\ om_error = FALSE
    /\ om_cleared = 0
    /\ sh_script = "none"
    /\ sh_env = {}
    /\ sh_argv = <<>>
    /\ sh_args = <<>>
    /\ sh_pc = "idle"
    /\ sh_status = 0
    /\ sh_exit = -1
    /\ sh_out = <<>>
    /\ sh_tests = <<>>
    /\ sh_calls = <<>>
    /\ child_status = -1
    /\ orch_trace = <<>>
    /\ DRY_RUN = FALSE
    /\ TOPIC = ""
    /\ PLATFORM = ""
    /\ CONFIG_FILE = ""
    /\ CMD = <<>>
    /\ sc_opts = <<>>
    /\ h_name = "none"
    /\ h_in = <<>>
    /\ h_pc = "idle"

\* ------------------------------------------------------- notebook actions
\* Cells "Get LinkedIn-style bio" to "Create and run the agent": the agent is
\* invoked with the prompt, the LLM infers the goal, the profile is saved with
\* an empty feedback_log.
BuildProfile ==
    /\ pc = "start"
    /\ \E bio \in Bios, goal \in Goals :
          /\ llm_request' = BuildRequest(user_id, bio)
          /\ store' = save_user_profile(store, user_id, NewProfile(user_id, goal))
    /\ pc' = "built"
    /\ op' = "build_profile"
    /\ UNCHANGED <<user_id, courses_collection, user_profile, retrieved_courses,
                   recommendations, idx, clock, cycle, trace, live_fb>>
    /\ UNCHANGED omVars
    /\ UNCHANGED shVars
    /\ UNCHANGED hVars

\* user_profile = load_user_profile(user_id): the stale variant keeps the copy
\* loaded for the previous batch.
StaleProfile == user_profile

\* user_profile = load_user_profile(user_id)
ReloadedProfile == load_user_profile(store, user_id)

\* Cell: user_profile = load_user_profile(user_id)
LoadUserProfile ==
    /\ pc = "built"
    /\ user_profile' = ReloadedProfile
    /\ pc' = "loaded"
    /\ op' = "load_user_profile"
    /\ trace' = <<Step("load", 0)>>
    /\ UNCHANGED <<user_id, store, courses_collection, retrieved_courses,
                   recommendations, idx, clock, cycle, llm_request, live_fb>>
    /\ UNCHANGED omVars
    /\ UNCHANGED shVars
    /\ UNCHANGED hVars

\* Cell: retrieved_courses = query_similar_courses(courses_collection,
\* user_profile, top_n=10)
QuerySimilarCourses ==
    /\ pc = "loaded"
    /\ retrieved_courses' = query_similar_courses(courses_collection, user_profile, TopN)
    /\ pc' = "retrieved"
    /\ op' = "query_similar_courses"
    /\ trace' = Append(trace, Step("retrieve", 0))
    /\ UNCHANGED <<user_id, store, courses_collection, user_profile,
                   recommendations, idx, clock, cycle, llm_request, live_fb>>
    /\ UNCHANGED omVars
    /\ UNCHANGED shVars
    /\ UNCHANGED hVars

\* The call with the whole collection in place of the retrieved candidates.
JustifyCallAllCourses(profile, retrieved) ==
    justify_recommendations(profile, NearestFirst(courses_collection, profile))

\* recommendations = justify_recommendations(user_profile, retrieved_courses)
JustifyCall(profile, retrieved) == justify_recommendations(profile, retrieved)

\* Cell: recommendations = justify_recommendations(user_profile, retrieved_courses)
JustifyRecommendations ==
    /\ pc = "retrieved"
    /\ cycle < MaxCycles
    /\ \E recs \in JustifyCall(user_profile, retrieved_courses) :
          recommendations' = recs
    /\ llm_request' = JustifyRequest(user_profile, retrieved_courses)
    /\ cycle' = cycle + 1
    /\ pc' = "justified"
    /\ op' = "justify_recommendations"
    /\ trace' = Append(trace, Step("justify", 0))
    /\ UNCHANGED <<user_id, store, courses_collection, user_profile,
                   retrieved_courses, idx, clock, live_fb>>
    /\ UNCHANGED omVars
    /\ UNCHANGED shVars
    /\ UNCHANGED hVars

\* collect_feedback() is called: feedback = [], the loop starts and prints the
\* first recommendation, then waits at input(); with no recommendation the
\* function returns at once.
CollectFeedback ==
    /\ pc = "justified"
    /\ IF recommendations = <<>>
       THEN /\ pc' = "collected"
            /\ idx' = 0
            /\ trace' = trace
       ELSE /\ pc' = "await_input"
            /\ idx' = 1
            /\ trace' = Append(trace, Step("present", recommendations[1].course_id))
    /\ op' = "collect_feedback"
    /\ UNCHANGED <<user_id, store, courses_collection, user_profile, retrieved_courses,
                   recommendations, clock, cycle, llm_request, live_fb>>
    /\ UNCHANGED omVars
    /\ UNCHANGED shVars
    /\ UNCHANGED hVars

\* The call with the literal user id of the notebook's first cell.
FeedbackUserLiteral == "test_user"

\* The first argument of process_feedback(user_id, rec["course_id"], ...).
FeedbackUser == user_id

\* One iteration of the loop from the first input() on: the user types the
\* feedback and the reason, process_feedback(user_id, rec["course_id"],
\* feedback, reason) stores them, and the loop goes on to print the next
\* recommendation or ends. recs_after is the list the loop leaves behind.
FeedbackStep(recs_after) ==
    /\ pc = "await_input"
    /\ clock < MaxFeedback
    /\ \E typed \in UserInputs :
          LET feedback == typed[1]
              reason == typed[2]
              rec == recommendations[idx]
              now == clock + 1
          IN /\ store' = process_feedback(store, FeedbackUser, rec.course_id, feedback, reason, now)
             /\ live_fb' = Append(live_fb, FeedbackEntry(rec.course_id, feedback, reason, now))
             /\ IF idx < Len(recommendations)
                THEN /\ idx' = idx + 1
                     /\ pc' = "await_input"
                     /\ trace' = trace \o <<Step("feedback", rec.course_id),
                                            Step("present", recommendations[idx + 1].course_id)>>
                ELSE /\ idx' = idx
                     /\ pc' = "collected"
                     /\ trace' = Append(trace, Step("feedback", rec.course_id))
    /\ clock' = clock + 1
    /\ recommendations' = recs_after
    /\ op' = "process_feedback"
    /\ UNCHANGED <<user_id, courses_collection, user_profile, retrieved_courses,
                   cycle, llm_request>>
    /\ UNCHANGED omVars
    /\ UNCHANGED shVars
    /\ UNCHANGED hVars

\* The loop that refreshes the explanations of the batch from the stored
\* profile after each feedback.
GiveFeedbackRefreshing ==
    FeedbackStep([i \in 1..Len(recommendations) |->
                     Recommendation(recommendations[i].course_id, store[user_id])])

\* for rec in recommendations: ... process_feedback(...): the list is only read.
GiveFeedback == FeedbackStep(recommendations)

\* The next cell running while collect_feedback still waits for input.
BatchDoneOrWaiting == pc \in {"collected", "await_input"}

\* The cells run top to bottom: collect_feedback() has returned when the cell
\* that gets the recommendations again runs.
BatchDone == pc = "collected"

\* Cell "Let's get the recommendations again": load, retrieve and justify in
\* one cell.
NewRecommendations ==
    /\ BatchDone
    /\ cycle < MaxCycles
    /\ LET profile == ReloadedProfile
           retrieved == query_similar_courses(courses_collection, profile, TopN)
       IN /\ user_profile' = profile
          /\ retrieved_courses' = retrieved
          /\ \E recs \in JustifyCall(profile, retrieved) : recommendations' = recs
          /\ llm_request' = JustifyRequest(profile, retrieved)
    /\ cycle' = cycle + 1
    /\ idx' = 0
    /\ pc' = "justified"
    /\ op' = "new_recommendations"
    /\ trace' = <<Step("load", 0), Step("retrieve", 0), Step("justify", 0)>>
    /\ UNCHANGED <<user_id, store, courses_collection, clock, live_fb>>
    /\ UNCHANGED omVars
    /\ UNCHANGED shVars
    /\ UNCHANGED hVars

\* ----------------------------------------------------------- memory editor
\* "My skills & goals": the user edits the goal of the stored profile.
MemoryEditGoal ==
    /\ store[user_id] # NoProfile
    /\ \E goal \in Goals \ {store[user_id].goal} :
          store' = save_user_profile(store, user_id, [store[user_id] EXCEPT !.goal = goal])
    /\ op' = "memory_edit"
    /\ UNCHANGED <<user_id, courses_collection, user_profile, retrieved_courses,
                   recommendations, pc, idx, clock, cycle, llm_request, trace, live_fb>>
    /\ UNCHANGED omVars
    /\ UNCHANGED shVars
    /\ UNCHANGED hVars

\* "My skills & goals": the user deletes the feedback history.
MemoryClearFeedback ==
    /\ store[user_id] # NoProfile
    /\ store[user_id].feedback_log # <<>>
    /\ store' = save_user_profile(store, user_id,
                                  [store[user_id] EXCEPT !.feedback_log = <<>>])
    /\ live_fb' = <<>>
    /\ op' = "memory_clear"
    /\ UNCHANGED <<user_id, courses_collection, user_profile, retrieved_courses,
                   recommendations, pc, idx, clock, cycle, llm_request, trace>>
    /\ UNCHANGED omVars
    /\ UNCHANGED shVars
    /\ UNCHANGED hVars

Next ==
    \/ BuildProfile
    \/ LoadUserProfile
    \/ QuerySimilarCourses
    \/ JustifyRecommendations
    \/ CollectFeedback
    \/ GiveFeedback
    \/ NewRecommendations
    \/ MemoryEditGoal
    \/ MemoryClearFeedback

Spec == Init /\ [][Next]_vars

\* ---------------------------------------------------- the other two specs
\* The retrieval and justification cells on collections of every size up to
\* MaxCatalog, for a user whose profile is built.
InitRetrieval ==
    /\ user_id \in Users
    /\ \E goal \in Goals :
          store = [u \in Users |-> IF u = user_id THEN NewProfile(u, goal)
                                   ELSE StoredProfile(u)]
    /\ courses_collection \in {1..n : n \in 0..MaxCatalog}
    /\ user_profile = NoProfile
    /\ retrieved_courses = <<>>
    /\ recommendations = <<>>
    /\ pc = "built"
    /\ idx = 0
    /\ clock = 0
    /\ cycle = 0
    /\ llm_request = NoRequest
    /\ op = "init"
    /\ trace = <<>>
    /\ live_fb = <<>>
    /\ om_schema = <<>>
    /\ om_values = <<>>
    /\ om_last = <<>>
    /\ om_args = <<>>
    /\ om_ret = <<>>
    /\ om_error = FALSE
    /\ om_cleared = 0
    /\ sh_script = "none"
    /\ sh_env = {}
    /\ sh_argv = <<>>
    /\ sh_args = <<>>
    /\ sh_pc = "idle"
    /\ sh_status = 0
    /\ sh_exit = -1
    /\ sh_out = <<>>
    /\ sh_tests = <<>>
    /\ sh_calls = <<>>
    /\ child_status = -1
    /\ orch_trace = <<>>
    /\ DRY_RUN = FALSE
    /\ TOPIC = ""
    /\ PLATFORM = ""
    /\ CONFIG_FILE = ""
    /\ CMD = <<>>
    /\ sc_opts = <<>>
    /\ h_name = "none"
    /\ h_in = <<>>
    /\ h_pc = "idle"

NextRetrieval ==
    \/ LoadUserProfile
    \/ QuerySimilarCourses
    \/ JustifyRecommendations

SpecRetrieval == InitRetrieval /\ [][NextRetrieval]_vars

\* A GradioOutputManager just constructed with a schema.
InitOM ==
    /\ om_schema \in Arrangements(OMNames, MaxSchema)
    /\ om_values = om_init(om_schema)
    /\ om_last = [n \in Range(om_schema) |-> None]
    /\ om_args = <<>>
    /\ om_ret = <<>>
    /\ om_error = FALSE
    /\ om_cleared = 0
    /\ op = "init"
    /\ user_id = "test_user"
    /\ store = [u \in Users |-> NoProfile]
    /\ courses_collection = {}
    /\ user_profile = NoProfile
    /\ retrieved_courses = <<>>
    /\ recommendations = <<>>
    /\ pc = "idle"
    /\ idx = 0
    /\ clock = 0
    /\ cycle = 0
    /\ llm_request = NoRequest
    /\ trace = <<>>
    /\ live_fb = <<>>
    /\ sh_script = "none"
    /\ sh_env = {}
    /\ sh_argv = <<>>
    /\ sh_args = <<>>
    /\ sh_pc = "idle"
    /\ sh_status = 0
    /\ sh_exit = -1
    /\ sh_out = <<>>
    /\ sh_tests = <<>>
    /\ sh_calls = <<>>
    /\ child_status = -1
    /\ orch_trace = <<>>
    /\ DRY_RUN = FALSE
    /\ TOPIC = ""
    /\ PLATFORM = ""
    /\ CONFIG_FILE = ""
    /\ CMD = <<>>
    /\ sc_opts = <<>>
    /\ h_name = "none"
    /\ h_in = <<>>
    /\ h_pc = "idle"

loopFrame == <<user_id, store, courses_collection, user_profile, retrieved_courses,
               recommendations, pc, idx, clock, cycle, llm_request, trace, live_fb>>

\* outputs.set(name, value)
OMSet ==
    /\ \E name \in OMNames, value \in OMValues :
          LET r == om_set(om_values, name, value)
          IN /\ om_values' = r.values
             /\ om_error' = r.error
             /\ om_args' = <<<<name, value>>>>
             /\ om_last' = [n \in DOMAIN om_last |->
                               IF n = name THEN value ELSE om_last[n]]
    /\ om_ret' = <<>>
    /\ om_cleared' = 0
    /\ op' = "set"
    /\ UNCHANGED <<om_schema, loopFrame, shVars, hVars>>

\* outputs.set_multiple(**kwargs)
OMSetMultiple ==
    /\ \E kwargs \in Kwargs(MaxKwargs) :
          LET r == om_set_multiple(om_values, kwargs)
              assigned == AssignedPrefix(kwargs, Range(om_schema))
          IN /\ om_values' = r.values
             /\ om_error' = r.error
             /\ om_args' = kwargs
             /\ om_last' = [n \in DOMAIN om_last |-> LastAssigned(assigned, n, om_last[n])]
    /\ om_ret' = <<>>
    /\ om_cleared' = 0
    /\ op' = "set_multiple"
    /\ UNCHANGED <<om_schema, loopFrame, shVars, hVars>>

\* outputs.get_tuple()
OMGetTuple ==
    /\ om_ret' = om_get_tuple(om_values, om_schema)
    /\ om_args' = <<>>
    /\ om_error' = FALSE
    /\ om_cleared' = 0
    /\ op' = "get_tuple"
    /\ UNCHANGED <<om_schema, om_values, om_last, loopFrame, shVars, hVars>>

\* outputs.reset()
OMReset ==
    /\ om_values' = om_reset(om_values)
    /\ om_last' = [n \in DOMAIN om_last |-> None]
    /\ om_cleared' = Cardinality({n \in DOMAIN om_last : om_last[n] # None})
    /\ om_args' = <<>>
    /\ om_ret' = <<>>
    /\ om_error' = FALSE
    /\ op' = "reset"
    /\ UNCHANGED <<om_schema, loopFrame, shVars, hVars>>

NextOM ==
    \/ OMSet
    \/ OMSetMultiple
    \/ OMGetTuple
    \/ OMReset

SpecOM == InitOM /\ [][NextOM]_vars

\* ============================================================ pipeline.sh
\* Most arguments on the command line of pipeline.sh.
MaxPipelineArgs == 3

\* What a command line of pipeline.sh may hold: its options, an option it does
\* not know, a topic or platform name, the empty string.
PipelineTokens == {"--validate-only", "--scrape", "--scrape-topic", "--scrape-platform",
                   "--help", "-h", "--bogus", "ml", ""}

\* What pipeline.sh tests for: app.py and scripts/ in the current directory,
\* data/esco_chroma, pipenv on the PATH.
PipelinePaths == {"app.py", "scripts", "data/esco_chroma", "pipenv"}

RECURSIVE ArgLists(_, _)
\* The command lines of at most n arguments.
ArgLists(tokens, n) ==
    IF n = 0 THEN {<<>>}
    ELSE LET prev == ArgLists(tokens, n - 1)
         IN prev \cup {Append(p, t) : p \in {q \in prev : Len(q) = n - 1}, t \in tokens}

\* "$i": the empty string when there are fewer than i positional parameters.
Arg(args, i) == IF i <= Len(args) THEN args[i] ELSE ""

\* The branch without its shift.
NoShift(args) == args

\* shift
ShiftArgs(args) == IF args = <<>> THEN args ELSE Tail(args)

\* The test that takes every value.
NeverEmpty(s) == FALSE

\* [ -z "$2" ]
EmptyValue(s) == s = ""

\* [ ! -f "app.py" ] || [ ! -d "scripts" ], negated
InProjectRoot(env) == "app.py" \in env /\ "scripts" \in env

\* The check left out.
EscoLoadedUnchecked(env) == TRUE

\* [ ! -d "data/esco_chroma" ], negated
EscoLoaded(env) == "data/esco_chroma" \in env

\* The test that finds pipenv wherever it looks.
PipenvUnchecked(env) == TRUE

\* command -v pipenv
PipenvInstalled(env) == "pipenv" \in env

\* The command with the script's own arguments handed on.
PipelineCommandWithArgs(oargs) ==
    <<"pipenv", "run", "python", "scripts/pipeline_orchestrator.py">> \o oargs \o sh_args

\* pipenv run python scripts/pipeline_orchestrator.py ARGS
PipelineCommand(oargs) ==
    <<"pipenv", "run", "python", "scripts/pipeline_orchestrator.py">> \o oargs

\* The arguments of an invocation of the orchestrator.
OrchestratorArgs(call) == SubSeq(call, 5, Len(call))

\* The if/elif chain on "$1": the message printed, the orchestrator command
\* run (none or one), the exit status if the branch exits (-1 if it does not),
\* and the positional parameters the branch leaves.
pipeline_dispatch(args) ==
    LET a == Arg(args, 1)
        b == Arg(args, 2)
    IN IF a = "--validate-only"
       THEN [out |-> <<"validate_only">>, calls |-> <<PipelineCommand(<<>>)>>,
             exit |-> -1, args |-> args]
       ELSE IF a = "--scrape"
       THEN [out |-> <<"full_scraping">>,
             calls |-> <<PipelineCommand(<<"--scrape">> \o ShiftArgs(args))>>,
             exit |-> -1, args |-> ShiftArgs(args)]
       ELSE IF a = "--scrape-topic"
       THEN IF EmptyValue(b)
            THEN [out |-> <<"topic_missing">>, calls |-> <<>>, exit |-> 1, args |-> args]
            ELSE [out |-> <<"scraping_topic">>,
                  calls |-> <<PipelineCommand(<<"--scrape", "--topic", b>>)>>,
                  exit |-> -1, args |-> args]
       ELSE IF a = "--scrape-platform"
       THEN IF EmptyValue(b)
            THEN [out |-> <<"platform_missing">>, calls |-> <<>>, exit |-> 1, args |-> args]
            ELSE [out |-> <<"scraping_platform">>,
                  calls |-> <<PipelineCommand(<<"--scrape", "--platform", b>>)>>,
                  exit |-> -1, args |-> args]
       ELSE IF a = "--help" \/ a = "-h"
       THEN [out |-> <<"usage">>, calls |-> <<>>, exit |-> 0, args |-> args]
       ELSE [out |-> <<"existing_data">>, calls |-> <<PipelineCommand(<<>>)>>,
             exit |-> -1, args |-> args]

\* ------------------------------------------------ pipeline_orchestrator.py
RECURSIVE orchestrator_args_ok(_)
\* The command line the orchestrator accepts: --scrape, --topic T (repeatable),
\* --platform P; anything else is a usage error.
orchestrator_args_ok(oargs) ==
    IF oargs = <<>> THEN TRUE
    ELSE IF oargs[1] = "--scrape" THEN orchestrator_args_ok(Tail(oargs))
    ELSE IF oargs[1] \in {"--topic", "--platform"} /\ Len(oargs) >= 2
    THEN orchestrator_args_ok(Tail(Tail(oargs)))
    ELSE FALSE

\* Consolidation without its cleanup (consolidate_courses.py --no-cleanup).
ConsolidationNoCleanup == <<"consolidate">>

\* Course consolidation, then automatic cleanup.
Consolidation == <<"consolidate", "cleanup">>

\* The steps of a run: scraping only with --scrape, then consolidation,
\* cleanup and quality validation.
orchestrator_plan(oargs) ==
    (IF \E i \in 1..Len(oargs) : oargs[i] = "--scrape" THEN <<"scrape">> ELSE <<>>)
        \o Consolidation \o <<"validate">>

\* Everything that is not part of a shell run.
appFrame == <<user_id, store, courses_collection, user_profile, retrieved_courses,
              recommendations, pc, idx, clock, cycle, llm_request, op, trace, live_fb,
              om_schema, om_values, om_last, om_args, om_ret, om_error, om_cleared,
              h_name, h_in, h_pc>>

scrapeVars == <<DRY_RUN, TOPIC, PLATFORM, CONFIG_FILE, CMD, sc_opts>>

\* pipeline.sh is started with some arguments in some environment.
InitPipeline ==
    /\ sh_script = "pipeline"
    /\ sh_env \in SUBSET PipelinePaths
    /\ sh_argv \in ArgLists(PipelineTokens, MaxPipelineArgs)
    /\ sh_args = sh_argv
    /\ sh_pc = "check_directory"
    /\ sh_status = 0
    /\ sh_exit = -1
    /\ sh_out = <<>>
    /\ sh_tests = <<>>
    /\ sh_calls = <<>>
    /\ child_status = -1
    /\ orch_trace = <<>>
    /\ DRY_RUN = FALSE
    /\ TOPIC = ""
    /\ PLATFORM = ""
    /\ CONFIG_FILE = ""
    /\ CMD = <<>>
    /\ sc_opts = <<>>
    /\ h_name = "none"
    /\ h_in = <<>>
    /\ h_pc = "idle"
    /\ user_id = "test_user"
    /\ store = [u \in Users |-> NoProfile]
    /\ courses_collection = {}
    /\ user_profile = NoProfile
    /\ retrieved_courses = <<>>
    /\ recommendations = <<>>
    /\ pc = "idle"
    /\ idx = 0
    /\ clock = 0
    /\ cycle = 0
    /\ llm_request = NoRequest
    /\ op = "init"
    /\ trace = <<>>
    /\ live_fb = <<>>
    /\ om_schema = <<>>
    /\ om_values = <<>>
    /\ om_last = <<>>
    /\ om_args = <<>>
    /\ om_ret = <<>>
    /\ om_error = FALSE
    /\ om_cleared = 0

\* The banner, then "Check if in correct directory".
PipelineCheckDirectory ==
    /\ sh_script = "pipeline"
    /\ sh_pc = "check_directory"
    /\ sh_tests' = Append(sh_tests, "directory")
    /\ IF InProjectRoot(sh_env)
       THEN /\ sh_out' = Append(sh_out, "banner")
            /\ sh_pc' = "check_esco"
            /\ sh_exit' = sh_exit
       ELSE /\ sh_out' = sh_out \o <<"banner", "wrong_directory">>
            /\ sh_pc' = "exited"
            /\ sh_exit' = 1
    /\ UNCHANGED <<sh_script, sh_env, sh_argv, sh_args, sh_status, sh_calls,
                   child_status, orch_trace, scrapeVars, appFrame>>

\* "Check prerequisites"
PipelineCheckEsco ==
    /\ sh_script = "pipeline"
    /\ sh_pc = "check_esco"
    /\ sh_tests' = Append(sh_tests, "esco")
    /\ IF EscoLoaded(sh_env)
       THEN /\ sh_out' = sh_out
            /\ sh_pc' = "check_pipenv"
            /\ sh_exit' = sh_exit
       ELSE /\ sh_out' = Append(sh_out, "esco_missing")
            /\ sh_pc' = "exited"
            /\ sh_exit' = 1
    /\ UNCHANGED <<sh_script, sh_env, sh_argv, sh_args, sh_status, sh_calls,
                   child_status, orch_trace, scrapeVars, appFrame>>

\* "Activate pipenv"
PipelineCheckPipenv ==
    /\ sh_script = "pipeline"
    /\ sh_pc = "check_pipenv"
    /\ sh_tests' = Append(sh_tests, "pipenv")
    /\ IF PipenvInstalled(sh_env)
       THEN /\ sh_out' = Append(sh_out, "activating")
            /\ sh_pc' = "dispatch"
            /\ sh_exit' = sh_exit
       ELSE /\ sh_out' = sh_out \o <<"activating", "pipenv_missing">>
            /\ sh_pc' = "exited"
            /\ sh_exit' = 1
    /\ UNCHANGED <<sh_script, sh_env, sh_argv, sh_args, sh_status, sh_calls,
                   child_status, orch_trace, scrapeVars, appFrame>>

\* "Parse arguments and run pipeline": the branch prints its message and
\* either exits or starts the orchestrator.
PipelineDispatch ==
    /\ sh_script = "pipeline"
    /\ sh_pc = "dispatch"
    /\ LET r == pipeline_dispatch(sh_args)
       IN /\ sh_out' = sh_out \o r.out
          /\ sh_calls' = sh_calls \o r.calls
          /\ sh_args' = r.args
          /\ sh_exit' = r.exit
          /\ sh_pc' = IF r.calls # <<>> THEN "orchestrator" ELSE "exited"
    /\ UNCHANGED <<sh_script, sh_env, sh_argv, sh_status, sh_tests,
                   child_status, orch_trace, scrapeVars, appFrame>>

\* The orchestrator rejects its command line (status 2), or runs the next step
\* of its plan; a step that fails ends it with status 1, the last step that
\* succeeds ends it with status 0.
OrchestratorStep ==
    /\ sh_script = "pipeline"
    /\ sh_pc = "orchestrator"
    /\ LET oargs == OrchestratorArgs(sh_calls[Len(sh_calls)])
           plan == orchestrator_plan(oargs)
           n == Len(orch_trace) + 1
       IN IF ~orchestrator_args_ok(oargs)
          THEN /\ child_status' = 2
               /\ sh_pc' = "returned"
               /\ orch_trace' = orch_trace
          ELSE /\ orch_trace' = Append(orch_trace, plan[n])
               /\ \E ok \in BOOLEAN :
                     IF ~ok THEN child_status' = 1 /\ sh_pc' = "returned"
                     ELSE IF n = Len(plan) THEN child_status' = 0 /\ sh_pc' = "returned"
                     ELSE child_status' = child_status /\ sh_pc' = sh_pc
    /\ UNCHANGED <<sh_script, sh_env, sh_argv, sh_args, sh_status, sh_exit, sh_out,
                   sh_tests, sh_calls, scrapeVars, appFrame>>

\* The orchestrator has ended. Under set -e a command of a branch's body that
\* fails ends the script at once with that command's status; otherwise the
\* if statement ends with the status of the command, 0.
PipelineOrchestratorEnds ==
    /\ sh_script = "pipeline"
    /\ sh_pc = "returned"
    /\ IF child_status # 0
       THEN /\ sh_exit' = child_status
            /\ sh_pc' = "exited"
            /\ sh_status' = sh_status
       ELSE /\ sh_status' = child_status
            /\ sh_pc' = "report"
            /\ sh_exit' = sh_exit
    /\ UNCHANGED <<sh_script, sh_env, sh_argv, sh_args, sh_out, sh_tests, sh_calls,
                   child_status, orch_trace, scrapeVars, appFrame>>

\* if [ $? -eq 0 ]; then ... else ... exit 1; fi
PipelineReport ==
    /\ sh_script = "pipeline"
    /\ sh_pc = "report"
    /\ IF sh_status = 0
       THEN /\ sh_out' = sh_out \o <<"completed", "output">>
            /\ sh_exit' = 0
       ELSE /\ sh_out' = Append(sh_out, "failed")
            /\ sh_exit' = 1
    /\ sh_pc' = "exited"
    /\ UNCHANGED <<sh_script, sh_env, sh_argv, sh_args, sh_status, sh_tests, sh_calls,
                   child_status, orch_trace, scrapeVars, appFrame>>

NextPipeline ==
    \/ PipelineCheckDirectory
    \/ PipelineCheckEsco
    \/ PipelineCheckPipenv
    \/ PipelineDispatch
    \/ OrchestratorStep
    \/ PipelineOrchestratorEnds
    \/ PipelineReport

SpecPipeline == InitPipeline /\ [][NextPipeline]_vars

\* ============================================================== scrape.sh
\* Most arguments on the command line of scrape.sh.
MaxScrapeArgs == 4

\* What a command line of scrape.sh may hold: options in their short or long
\* form, an option it does not know, a topic or platform name, a file name,
\* the empty string.
ScrapeTokens == {"-d", "--topic", "-p", "-c", "--help", "--bogus", "ml", "alt.yaml", ""}

\* CONFIG_FILE="$PROJECT_ROOT/config/scraping_config.yaml"
DefaultConfig == "$PROJECT_ROOT/config/scraping_config.yaml"

\* The exit statuses of master_scraper.py: success, failure, usage error.
ScraperStatuses == {0, 1, 2}

\* What scrape.sh tests for: the configuration file, pipenv on the PATH.
ScrapePaths == {DefaultConfig, "alt.yaml", "pipenv"}

\* The state of the script while it parses.
ScrapeState ==
    [args |-> sh_args, dry |-> DRY_RUN, topic |-> TOPIC, platform |-> PLATFORM,
     config |-> CONFIG_FILE, opts |-> sc_opts, out |-> sh_out, exit |-> sh_exit,
     pc |-> sh_pc]

\* The dry-run branch shifting two words.
scrape_shift_two(s) ==
    IF Len(s.args) >= 2 THEN [s EXCEPT !.args = Tail(Tail(@))]
    ELSE [s EXCEPT !.exit = 1, !.pc = "exited"]

\* shift: under set -e the script ends with status 1 when there is no
\* parameter left to shift.
scrape_shift(s) ==
    IF Len(s.args) >= 1 THEN [s EXCEPT !.args = Tail(@)]
    ELSE [s EXCEPT !.exit = 1, !.pc = "exited"]

\* shift 2 without set -e: a shift that fails leaves the parameters as they
\* are and the loop goes on.
scrape_shift2_no_errexit(s) ==
    IF Len(s.args) >= 2 THEN [s EXCEPT !.args = Tail(Tail(@))] ELSE s

\* shift 2: fails, and under set -e ends the script with status 1, when fewer
\* than 2 parameters are left.
scrape_shift2(s) ==
    IF Len(s.args) >= 2 THEN [s EXCEPT !.args = Tail(Tail(@))]
    ELSE [s EXCEPT !.exit = 1, !.pc = "exited"]

\* The parser that skips what it does not know.
scrape_unknown_option_skipped(s) == scrape_shift(s)

\* *) echo "Error: Unknown option $1"; show_usage; exit 1
scrape_unknown_option(s) ==
    [s EXCEPT !.out = @ \o <<"unknown_option", "usage">>, !.exit = 1, !.pc = "exited"]

\* One iteration of the while loop: case $1 in ... esac
scrape_case(s) ==
    LET a == s.args[1]
        b == Arg(s.args, 2)
    IN IF a \in {"-c", "--config"}
       THEN scrape_shift2([s EXCEPT !.config = b, !.opts = Append(@, <<"config", b>>)])
       ELSE IF a \in {"-d", "--dry-run"}
       THEN scrape_shift([s EXCEPT !.dry = TRUE, !.opts = Append(@, <<"dry-run", "">>)])
       ELSE IF a \in {"-t", "--topic"}
       THEN scrape_shift2([s EXCEPT !.topic = b, !.opts = Append(@, <<"topic", b>>)])
       ELSE IF a \in {"-p", "--platform"}
       THEN scrape_shift2([s EXCEPT !.platform = b, !.opts = Append(@, <<"platform", b>>)])
       ELSE IF a \in {"-h", "--help"}
       THEN [s EXCEPT !.out = Append(@, "usage"), !.exit = 0, !.pc = "exited"]
       ELSE scrape_unknown_option(s)

\* The command with the platform filter put first.
scrape_cmd_platform_first(config, dry, topic, platform) ==
    <<"pipenv", "run", "python", "$SCRIPT_DIR/master_scraper.py", "--config", config>>
        \o (IF platform # "" THEN <<"--platform", platform>> ELSE <<>>)
        \o (IF dry THEN <<"--dry-run">> ELSE <<>>)
        \o (IF topic # "" THEN <<"--topic", topic>> ELSE <<>>)

\* CMD=("pipenv" "run" "python" "$SCRIPT_DIR/master_scraper.py" "--config"
\* "$CONFIG_FILE"), then the three CMD+=(...) under their tests.
scrape_cmd(config, dry, topic, platform) ==
    <<"pipenv", "run", "python", "$SCRIPT_DIR/master_scraper.py", "--config", config>>
        \o (IF dry THEN <<"--dry-run">> ELSE <<>>)
        \o (IF topic # "" THEN <<"--topic", topic>> ELSE <<>>)
        \o (IF platform # "" THEN <<"--platform", platform>> ELSE <<>>)

\* scrape.sh is started with some arguments in some environment; the "Default
\* values" are set.
InitScrape ==
    /\ sh_script = "scrape"
    /\ sh_env \in SUBSET ScrapePaths
    /\ sh_argv \in ArgLists(ScrapeTokens, MaxScrapeArgs)
    /\ sh_args = sh_argv
    /\ sh_pc = "parse"
    /\ sh_status = 0
    /\ sh_exit = -1
    /\ sh_out = <<>>
    /\ sh_tests = <<>>
    /\ sh_calls = <<>>
    /\ child_status = -1
    /\ orch_trace = <<>>
    /\ DRY_RUN = FALSE
    /\ TOPIC = ""
    /\ PLATFORM = ""
    /\ CONFIG_FILE = DefaultConfig
    /\ CMD = <<>>
    /\ sc_opts = <<>>
    /\ h_name = "none"
    /\ h_in = <<>>
    /\ h_pc = "idle"
    /\ user_id = "test_user"
    /\ store = [u \in Users |-> NoProfile]
    /\ courses_collection = {}
    /\ user_profile = NoProfile
    /\ retrieved_courses = <<>>
    /\ recommendations = <<>>
    /\ pc = "idle"
    /\ idx = 0
    /\ clock = 0
    /\ cycle = 0
    /\ llm_request = NoRequest
    /\ op = "init"
    /\ trace = <<>>
    /\ live_fb = <<>>
    /\ om_schema = <<>>
    /\ om_values = <<>>
    /\ om_last = <<>>
    /\ om_args = <<>>
    /\ om_ret = <<>>
    /\ om_error = FALSE
    /\ om_cleared = 0

\* while [[ $# -gt 0 ]]: one iteration.
ScrapeParseArg ==
    /\ sh_script = "scrape"
    /\ sh_pc = "parse"
    /\ sh_args # <<>>
    /\ LET s == scrape_case(ScrapeState)
       IN /\ sh_args' = s.args
          /\ DRY_RUN' = s.dry
          /\ TOPIC' = s.topic
          /\ PLATFORM' = s.platform
          /\ CONFIG_FILE' = s.config
          /\ sc_opts' = s.opts
          /\ sh_out' = s.out
          /\ sh_exit' = s.exit
          /\ sh_pc' = s.pc
    /\ UNCHANGED <<sh_script, sh_env, sh_argv, sh_status, sh_tests, sh_calls,
                   child_status, orch_trace, CMD, appFrame>>

\* The loop ends; "Check if config file exists".
ScrapeCheckConfig ==
    /\ sh_script = "scrape"
    /\ sh_pc = "parse"
    /\ sh_args = <<>>
    /\ sh_tests' = Append(sh_tests, "config")
    /\ IF CONFIG_FILE \in sh_env
       THEN /\ sh_out' = sh_out
            /\ sh_pc' = "check_pipenv"
            /\ sh_exit' = sh_exit
       ELSE /\ sh_out' = Append(sh_out, "config_missing")
            /\ sh_pc' = "exited"
            /\ sh_exit' = 1
    /\ UNCHANGED <<sh_script, sh_env, sh_argv, sh_args, sh_status, sh_calls,
                   child_status, orch_trace, scrapeVars, appFrame>>

\* "Find Python executable using pipenv"
ScrapeCheckPipenv ==
    /\ sh_script = "scrape"
    /\ sh_pc = "check_pipenv"
    /\ sh_tests' = Append(sh_tests, "pipenv")
    /\ IF PipenvInstalled(sh_env)
       THEN /\ sh_out' = sh_out
            /\ sh_pc' = "build"
            /\ sh_exit' = sh_exit
       ELSE /\ sh_out' = Append(sh_out, "pipenv_missing")
            /\ sh_pc' = "exited"
            /\ sh_exit' = 1
    /\ UNCHANGED <<sh_script, sh_env, sh_argv, sh_args, sh_status, sh_calls,
                   child_status, orch_trace, scrapeVars, appFrame>>

\* "Build the command using pipenv run" and "Show what we're about to run".
ScrapeBuildCmd ==
    /\ sh_script = "scrape"
    /\ sh_pc = "build"
    /\ CMD' = scrape_cmd(CONFIG_FILE, DRY_RUN, TOPIC, PLATFORM)
    /\ sh_out' = sh_out \o <<"running", "config">>
                    \o (IF DRY_RUN THEN <<"mode_dry_run">> ELSE <<>>)
                    \o (IF TOPIC # "" THEN <<"topic_filter">> ELSE <<>>)
                    \o (IF PLATFORM # "" THEN <<"platform_filter">> ELSE <<>>)
    /\ sh_pc' = "run"
    /\ UNCHANGED <<sh_script, sh_env, sh_argv, sh_args, sh_status, sh_exit, sh_tests,
                   sh_calls, child_status, orch_trace, DRY_RUN, TOPIC, PLATFORM,
                   CONFIG_FILE, sc_opts, appFrame>>

\* The command run as a plain statement: under set -e a failure ends the
\* script with the command's status and no message.
ScrapeRunErrexit ==
    /\ sh_script = "scrape"
    /\ sh_pc = "run"
    /\ sh_calls' = Append(sh_calls, CMD)
    /\ \E status \in ScraperStatuses :
          /\ child_status' = status
          /\ sh_status' = status
          /\ sh_exit' = status
          /\ sh_out' = IF status = 0 THEN Append(sh_out, "completed") ELSE sh_out
    /\ sh_pc' = "exited"
    /\ UNCHANGED <<sh_script, sh_env, sh_argv, sh_args, sh_tests, orch_trace,
                   scrapeVars, appFrame>>

\* "Run the command": if "${CMD[@]}"; then ... else ... exit 1; fi
ScrapeRun ==
    /\ sh_script = "scrape"
    /\ sh_pc = "run"
    /\ sh_calls' = Append(sh_calls, CMD)
    /\ \E status \in ScraperStatuses :
          /\ child_status' = status
          /\ sh_status' = status
          /\ IF status = 0
             THEN sh_out' = Append(sh_out, "completed") /\ sh_exit' = 0
             ELSE sh_out' = Append(sh_out, "failed") /\ sh_exit' = 1
    /\ sh_pc' = "exited"
    /\ UNCHANGED <<sh_script, sh_env, sh_argv, sh_args, sh_tests, orch_trace,
                   scrapeVars, appFrame>>

NextScrape ==
    \/ ScrapeParseArg
    \/ ScrapeCheckConfig
    \/ ScrapeCheckPipenv
    \/ ScrapeBuildCmd
    \/ ScrapeRun

SpecScrape == InitScrape /\ [][NextScrape]_vars

\* ============================================ handlers of the Gradio app
\* FEEDBACK_OUTPUTS with chatbox and agent_memory in each other's place.
FEEDBACK_OUTPUTS_swapped ==
    <<"recommendations", "keep_btn", "adjust_btn", "reject_btn", "rec_index_state",
      "feedback_log_state", "agent_memory", "chatbox", "chat_input", "send_btn",
      "new_recs_btn", "memory_display">>

\* FEEDBACK_OUTPUTS = ["recommendations", ..., "memory_display"]
FEEDBACK_OUTPUTS ==
    <<"recommendations", "keep_btn", "adjust_btn", "reject_btn", "rec_index_state",
      "feedback_log_state", "chatbox", "agent_memory", "chat_input", "send_btn",
      "new_recs_btn", "memory_display">>

\* The handlers the documentation shows returning through the manager:
\* feedback_action ("Use the Manager") and the migrated return of the
\* "Migration Guide".
Handlers == {"feedback_action", "migration_after"}

\* The values a handler has at hand when it returns.
HandlerInputs ==
    [idx : {"idx_0", "idx_3"},
     feedback_log : {"log_empty", "log_one"},
     chatbox : {"chat_a", "chat_b"},
     updated_memory : {"memory_a", "memory_b"},
     updated_memory_editor : {"editor_a", "editor_b"},
     next_card : {"card_a", "card_b"},
     user_id_state : {"", "test_user"}]

\* gr.update(value=next_card, visible=True)
CardUpdate(next_card) ==
    IF next_card = "card_a" THEN "gr.update(value=card_a, visible=True)"
    ELSE "gr.update(value=card_b, visible=True)"

\* format_agent_memory_panel(load_user_profile(user_id_state)) if user_id_state
\* else ""
AgentMemoryPanel(in) == IF in.user_id_state # "" THEN in.updated_memory ELSE ""

\* The return statement feedback_action had before the manager: the tuple in
\* the order written by hand.
feedback_action_by_hand(in) ==
    <<"gr.update(value=All feedback collected. Thank you!, visible=True)",
      "gr.update(visible=False)", "gr.update(visible=False)", "gr.update(visible=False)",
      in.idx, in.feedback_log,
      in.chatbox,
      in.updated_memory,
      "gr.update(interactive=False, value=, placeholder=Chat will be enabled...)",
      "gr.update(visible=False, interactive=False)",
      "gr.update(visible=True)",
      in.updated_memory_editor>>

\* The keyword arguments of feedback_action's set_multiple call.
feedback_action_kwargs(in) ==
    <<<<"recommendations",
        "gr.update(value=All feedback collected. Thank you!, visible=True)">>,
      <<"keep_btn", "gr.update(visible=False)">>,
      <<"adjust_btn", "gr.update(visible=False)">>,
      <<"reject_btn", "gr.update(visible=False)">>,
      <<"rec_index_state", in.idx>>,
      <<"feedback_log_state", in.feedback_log>>,
      <<"chatbox", in.chatbox>>,
      <<"agent_memory", in.updated_memory>>,
      <<"chat_input",
        "gr.update(interactive=False, value=, placeholder=Chat will be enabled...)">>,
      <<"send_btn", "gr.update(visible=False, interactive=False)">>,
      <<"new_recs_btn", "gr.update(visible=True)">>,
      <<"memory_display", in.updated_memory_editor>>>>

\* The keyword arguments of the set_multiple call of "Migration Guide: After".
migration_after_kwargs(in) ==
    <<<<"recommendations", CardUpdate(in.next_card)>>,
      <<"keep_btn", "gr.update(visible=True)">>,
      <<"adjust_btn", "gr.update(visible=True)">>,
      <<"reject_btn", "gr.update(visible=True)">>,
      <<"rec_index_state", in.idx>>,
      <<"feedback_log_state", in.feedback_log>>,
      <<"chatbox", in.chatbox>>,
      <<"agent_memory", AgentMemoryPanel(in)>>>>

HandlerKwargs(name, in) ==
    IF name = "feedback_action" THEN feedback_action_kwargs(in)
    ELSE migration_after_kwargs(in)

handlerFrame == <<user_id, store, courses_collection, user_profile, retrieved_courses,
                  recommendations, pc, idx, clock, cycle, llm_request, trace, live_fb,
                  shVars, h_name, h_in>>

\* A handler is called with the values it will return.
InitHandler ==
    /\ h_name \in Handlers
    /\ h_in \in HandlerInputs
    /\ h_pc = "called"
    /\ om_schema = <<>>
    /\ om_values = <<>>
    /\ om_last = <<>>
    /\ om_args = <<>>
    /\ om_ret = <<>>
    /\ om_error = FALSE
    /\ om_cleared = 0
    /\ op = "init"
    /\ user_id = "test_user"
    /\ store = [u \in Users |-> NoProfile]
    /\ courses_collection = {}
    /\ user_profile = NoProfile
    /\ retrieved_courses = <<>>
    /\ recommendations = <<>>
    /\ pc = "idle"
    /\ idx = 0
    /\ clock = 0
    /\ cycle = 0
    /\ llm_request = NoRequest
    /\ trace = <<>>
    /\ live_fb = <<>>
    /\ sh_script = "none"
    /\ sh_env = {}
    /\ sh_argv = <<>>
    /\ sh_args = <<>>
    /\ sh_pc = "idle"
    /\ sh_status = 0
    /\ sh_exit = -1
    /\ sh_out = <<>>
    /\ sh_tests = <<>>
    /\ sh_calls = <<>>
    /\ child_status = -1
    /\ orch_trace = <<>>
    /\ DRY_RUN = FALSE
    /\ TOPIC = ""
    /\ PLATFORM = ""
    /\ CONFIG_FILE = ""
    /\ CMD = <<>>
    /\ sc_opts = <<>>

\* outputs = GradioOutputManager(FEEDBACK_OUTPUTS)
HandlerNewManager ==
    /\ h_pc = "called"
    /\ om_schema' = FEEDBACK_OUTPUTS
    /\ om_values' = om_init(FEEDBACK_OUTPUTS)
    /\ om_last' = [n \in Range(FEEDBACK_OUTPUTS) |-> None]
    /\ om_args' = <<>>
    /\ om_ret' = <<>>
    /\ om_error' = FALSE
    /\ om_cleared' = 0
    /\ op' = "__init__"
    /\ h_pc' = "constructed"
    /\ UNCHANGED handlerFrame

\* outputs.set_multiple(...): a ValueError ends the handler.
HandlerSetMultiple ==
    /\ h_pc = "constructed"
    /\ LET kwargs == HandlerKwargs(h_name, h_in)
           r == om_set_multiple(om_values, kwargs)
           assigned == AssignedPrefix(kwargs, Range(om_schema))
       IN /\ om_values' = r.values
          /\ om_error' = r.error
          /\ om_args' = kwargs
          /\ om_last' = [n \in DOMAIN om_last |-> LastAssigned(assigned, n, om_last[n])]
          /\ h_pc' = IF r.error THEN "raised" ELSE "assigned"
    /\ om_ret' = <<>>
    /\ om_cleared' = 0
    /\ op' = "set_multiple"
    /\ UNCHANGED <<om_schema, handlerFrame>>

\* return outputs.set_multiple(...).get_tuple()
HandlerReturn ==
    /\ h_pc = "assigned"
    /\ om_ret' = om_get_tuple(om_values, om_schema)
    /\ om_args' = <<>>
    /\ om_error' = FALSE
    /\ om_cleared' = 0
    /\ op' = "get_tuple"
    /\ h_pc' = "returned"
    /\ UNCHANGED <<om_schema, om_values, om_last, handlerFrame>>

NextHandler ==
    \/ HandlerNewManager
    \/ HandlerSetMultiple
    \/ HandlerReturn

SpecHandler == InitHandler /\ [][NextHandler]_vars

\* ================================================================ claims
Last(s) == s[Len(s)]

Count(s, name) == Cardinality({i \in 1..Len(s) : s[i].op = name})

IsIn(e, s) == \E i \in 1..Len(s) : s[i] = e

OtherUsers == Users \ {user_id}

\* C1: every process_feedback call appends exactly one entry (course_id,
\* feedback_type, reason, timestamp) at the end of the user's feedback_log;
\* the entries that were in the log before the call are all still there,
\* unchanged and at the same positions.
C1_FeedbackLogOnlyGrows ==
    [][op' = "process_feedback" =>
          LET old == store[user_id].feedback_log
              new == store'[user_id].feedback_log
          IN /\ Len(new) = Len(old) + 1
             /\ SubSeq(new, 1, Len(old)) = old
             /\ DOMAIN Last(new) = {"course_id", "feedback_type", "reason", "timestamp"}
             /\ Last(new).course_id = recommendations[idx].course_id
             /\ <<Last(new).feedback_type, Last(new).reason>> \in UserInputs
             /\ Last(new).timestamp = clock']_vars

\* A second feedback has been appended behind an earlier one.
C1_Witness ==
    /\ op = "process_feedback"
    /\ Len(store[user_id].feedback_log) >= 2

\* C2: recording feedback on a recommendation or editing the stored profile
\* in the memory editor leaves the recommendations of the current batch
\* unchanged.
C2_BatchUnchangedMidBatch ==
    [][op' \in {"process_feedback", "memory_edit", "memory_clear"} =>
          recommendations' = recommendations]_vars

\* The goal is edited while the second recommendation of a batch of two waits
\* for its feedback, the first one having got its feedback.
C2_Witness ==
    /\ op = "memory_edit"
    /\ pc = "await_input"
    /\ idx = 2
    /\ Len(recommendations) = 2
    /\ store[user_id].goal # recommendations[1].justification

C4_TraceLinear ==
    \A i \in 1..Len(trace) :
        /\ (trace[i].op = "load") <=> (i = 1)
        /\ trace[i].op = "retrieve" => i = 2
        /\ trace[i].op = "justify" => i = 3 /\ trace[i - 1].op = "retrieve"
        /\ trace[i].op = "present" => i > 3 /\ trace[i - 1].op \in {"justify", "feedback"}
        /\ trace[i].op = "feedback" =>
              i > 4 /\ trace[i - 1].op = "present" /\ trace[i - 1].course = trace[i].course

\* C4: in every cycle the operations run in the order load, retrieve, justify,
\* then present and feedback in turns; feedback is stored only for the
\* recommendation presented last; new recommendations are requested only
\* after every presented recommendation has its feedback stored.
C4_LinearControlFlow ==
    /\ [](C4_TraceLinear)
    /\ [][/\ op' = "process_feedback" =>
                /\ Last(trace).op = "present"
                /\ Last(store'[user_id].feedback_log).course_id = Last(trace).course
          /\ op' = "new_recommendations" =>
                /\ Last(trace).op \in {"justify", "feedback"}
                /\ Count(trace, "present") = Count(trace, "feedback")
                /\ Count(trace, "feedback") = Len(recommendations)]_vars

\* The second batch has been requested after a first cycle in which two
\* recommendations were presented and given feedback.
C4_Witness ==
    /\ op = "new_recommendations"
    /\ cycle = 2
    /\ Len(live_fb) = 2
    /\ Len(trace) = 3

\* C5: every course of a justified batch is one of the candidates retrieval
\* returned for the batch, and retrieval returns at most top_n candidates, all
\* of them courses of the collection.
C5_BatchWithinCandidates ==
    /\ Len(retrieved_courses) <= TopN
    /\ Range(retrieved_courses) \subseteq courses_collection
    /\ \A i \in 1..Len(recommendations) :
          recommendations[i].course_id \in Range(retrieved_courses)

\* A full batch has been justified out of top_n candidates retrieved from a
\* collection of more than top_n courses.
C5_Witness ==
    /\ pc = "justified"
    /\ Cardinality(courses_collection) > TopN
    /\ Len(retrieved_courses) = TopN
    /\ Len(recommendations) = MaxBatch

\* C6: get_tuple returns one value per name of the schema, in the schema's
\* order: position i holds the last value assigned to the i-th name (None if
\* none was assigned).
C6_TupleInSchemaOrder ==
    op = "get_tuple" =>
        /\ Len(om_ret) = Len(om_schema)
        /\ \A i \in 1..Len(om_schema) : om_ret[i] = om_last[om_schema[i]]

\* get_tuple has returned two different assigned values for a schema of two
\* names.
C6_Witness ==
    /\ op = "get_tuple"
    /\ Len(om_schema) = 2
    /\ om_ret[1] \in OMValues
    /\ om_ret[2] \in OMValues
    /\ om_ret[1] # om_ret[2]

\* C7: set and set_multiple raise ValueError exactly when given a name that is
\* not in the schema, and no value is ever stored under a name outside the
\* schema.
C7_UnknownNameRejected ==
    /\ DOMAIN om_values = Range(om_schema)
    /\ op \in {"set", "set_multiple"} =>
          (om_error <=> \E i \in 1..Len(om_args) : om_args[i][1] \notin Range(om_schema))

\* set_multiple has raised ValueError for a name outside a schema that is not
\* empty.
C7_Witness ==
    /\ op = "set_multiple"
    /\ om_error
    /\ Len(om_schema) >= 1
    /\ Len(om_args) = 2

\* C8: after reset, whatever was set before, get_tuple returns a tuple of the
\* schema's length whose elements are all None.
C8_ResetClearsAll ==
    op = "reset" =>
        /\ Len(om_get_tuple(om_values, om_schema)) = Len(om_schema)
        /\ \A i \in 1..Len(om_schema) : om_get_tuple(om_values, om_schema)[i] = None

\* reset has cleared the assigned values of both outputs of a schema of two.
C8_Witness ==
    /\ op = "reset"
    /\ Len(om_schema) = 2
    /\ om_cleared = 2

\* C9: the LLM is called only to generate course explanations, and the content
\* of every request to it is independent of the user's profile: the request
\* would be the same for any other user id, bio, goal and feedback log.
C9_NoProfileDataToLLM ==
    /\ llm_request.purpose \in {"none", "justify"}
    /\ llm_request.purpose = "build_profile" =>
          \A u \in Users, bio \in Bios : llm_request = BuildRequest(u, bio)
    /\ llm_request.purpose = "justify" =>
          \A u \in Users, goal \in Goals :
              llm_request = JustifyRequest(NewProfile(u, goal), llm_request.courses)

\* C10: building a profile or recording feedback for a user writes only that
\* user's file: the stored profile of every other user stays as it was.
C10_OnlyOwnProfileWritten ==
    [][/\ \A u \in OtherUsers : store'[u] = store[u]
       /\ op' \in {"build_profile", "process_feedback"} => store'[user_id] # store[user_id]]_vars

\* Feedback has been recorded for the user while another user has a stored
\* profile.
C10_Witness ==
    /\ op = "process_feedback"
    /\ store[user_id].feedback_log # <<>>
    /\ \E u \in OtherUsers : store[u] = StoredProfile(u)

Ran(step) == \E i \in 1..Len(orch_trace) : orch_trace[i] = step

Printed(msg) == \E i \in 1..Len(sh_out) : sh_out[i] = msg

PipelineRun == sh_script = "pipeline"

\* C11: a run of pipeline.sh started with --validate-only performs no
\* scraping, no consolidation and no cleanup, and the orchestrator command it
\* runs is not the command of the default run.
C11_ValidateOnlyValidatesOnly ==
    (PipelineRun /\ Arg(sh_argv, 1) = "--validate-only") =>
        /\ ~Ran("scrape") /\ ~Ran("consolidate") /\ ~Ran("cleanup")
        /\ \A i \in 1..Len(sh_calls) : sh_calls[i] # pipeline_dispatch(<<>>).calls[1]

\* C12: pipeline.sh invokes the orchestrator at most once; with no argument it
\* gets no arguments, with --scrape it gets --scrape followed by the remaining
\* arguments in their order, with --scrape-topic T exactly --scrape --topic T,
\* with --scrape-platform P exactly --scrape --platform P.
C12_OrchestratorArguments ==
    PipelineRun =>
        /\ Len(sh_calls) <= 1
        /\ sh_calls # <<>> =>
              LET a == Arg(sh_argv, 1)
                  given == SubSeq(sh_calls[1], 5, Len(sh_calls[1]))
              IN /\ SubSeq(sh_calls[1], 1, 4) =
                        <<"pipenv", "run", "python", "scripts/pipeline_orchestrator.py">>
                 /\ sh_argv = <<>> => given = <<>>
                 /\ a = "--scrape" =>
                        given = <<"--scrape">> \o SubSeq(sh_argv, 2, Len(sh_argv))
                 /\ a = "--scrape-topic" => given = <<"--scrape", "--topic", sh_argv[2]>>
                 /\ a = "--scrape-platform" => given = <<"--scrape", "--platform", sh_argv[2]>>

\* --scrape with two more arguments has invoked the orchestrator with all
\* three.
C12_Witness ==
    /\ PipelineRun
    /\ Len(sh_argv) = 3
    /\ sh_argv[1] = "--scrape"
    /\ sh_argv[2] # sh_argv[3]
    /\ sh_calls # <<>>
    /\ Len(sh_calls[1]) = 7

\* C13: a run of pipeline.sh started with --help or -h never invokes the
\* orchestrator and ends with the usage text printed and exit status 0,
\* whatever exists in the working directory and on the PATH.
C13_HelpAlwaysExitsZero ==
    (PipelineRun /\ Arg(sh_argv, 1) \in {"--help", "-h"}) =>
        /\ sh_calls = <<>>
        /\ sh_pc = "exited" => (sh_exit = 0 /\ Printed("usage"))

\* C14: in every run of pipeline.sh that completes successfully and in which
\* consolidation ran, cleanup ran after consolidation; and whenever the
\* orchestrator ends with status 0 it has run cleanup after consolidation.
C14_CleanupAfterConsolidation ==
    (PipelineRun /\ Ran("consolidate") /\ (child_status = 0 \/ sh_exit = 0)) =>
        \E i, j \in 1..Len(orch_trace) :
            /\ i < j
            /\ orch_trace[i] = "consolidate"
            /\ orch_trace[j] = "cleanup"

\* A run with scraping has completed successfully after scraping,
\* consolidation, cleanup and validation.
C14_Witness ==
    /\ PipelineRun
    /\ sh_pc = "exited"
    /\ sh_exit = 0
    /\ Printed("completed")
    /\ orch_trace = <<"scrape", "consolidate", "cleanup", "validate">>

ScrapeKnownOptions ==
    {"-c", "--config", "-d", "--dry-run", "-t", "--topic", "-p", "--platform", "-h", "--help"}

\* C15: the command scrape.sh builds and runs is pipenv run python
\* master_scraper.py --config CONFIG, then --dry-run iff the dry-run option was
\* given, then --topic T iff the last topic given is not empty, then
\* --platform P iff the last platform given is not empty, in this order
\* whatever the order on the command line; CONFIG is the default file unless
\* the config option named another.
C15_ScrapeCommand ==
    (sh_script = "scrape" /\ (sh_pc = "run" \/ sh_calls # <<>>)) =>
        LET dry == \E i \in 1..Len(sc_opts) : sc_opts[i][1] = "dry-run"
            topic == LastAssigned(sc_opts, "topic", "")
            platform == LastAssigned(sc_opts, "platform", "")
            config == LastAssigned(sc_opts, "config",
                                   "$PROJECT_ROOT/config/scraping_config.yaml")
        IN /\ CMD = <<"pipenv", "run", "python", "$SCRIPT_DIR/master_scraper.py",
                      "--config", config>>
                        \o (IF dry THEN <<"--dry-run">> ELSE <<>>)
                        \o (IF topic # "" THEN <<"--topic", topic>> ELSE <<>>)
                        \o (IF platform # "" THEN <<"--platform", platform>> ELSE <<>>)
           /\ \A i \in 1..Len(sh_calls) : sh_calls[i] = CMD

\* The platform was given before the dry-run option; the command that ran has
\* --dry-run before --platform.
C15_Witness ==
    /\ sh_script = "scrape"
    /\ sh_argv = <<"-p", "ml", "-d">>
    /\ sh_calls = <<<<"pipenv", "run", "python", "$SCRIPT_DIR/master_scraper.py", "--config",
                      "$PROJECT_ROOT/config/scraping_config.yaml",
                      "--dry-run", "--platform", "ml">>>>

\* C16: when the parser of scrape.sh meets an option it does not know, it
\* prints the error and the usage text and the script exits with status 1; the
\* master scraper has not been invoked and is not invoked.
C16_UnknownOptionRejected ==
    /\ [][(sh_script = "scrape" /\ sh_pc = "parse" /\ sh_args # <<>>
              /\ sh_args[1] \notin ScrapeKnownOptions) =>
             /\ sh_pc' = "exited"
             /\ sh_exit' = 1
             /\ sh_out' = sh_out \o <<"unknown_option", "usage">>
             /\ sh_calls' = <<>>
             /\ CMD' = <<>>]_vars
    /\ []((sh_script = "scrape" /\ Printed("unknown_option")) =>
             (sh_pc = "exited" /\ sh_exit = 1 /\ sh_calls = <<>>))

\* An option the script does not know came after one it knows: the script has
\* exited with status 1 after the error and the usage text.
C16_Witness ==
    /\ sh_script = "scrape"
    /\ sh_pc = "exited"
    /\ sh_exit = 1
    /\ sc_opts # <<>>
    /\ sh_args # <<>>
    /\ sh_args[1] = "--bogus"
    /\ Last(sh_out) = "usage"

\* C18: when the orchestrator pipeline.sh invoked has ended with a status
\* other than 0, the script ends with the "Pipeline failed" message printed
\* and exit status 1.
C18_FailureReported ==
    (PipelineRun /\ sh_pc = "exited" /\ child_status > 0) =>
        (sh_exit = 1 /\ Printed("failed"))

\* C19: pipeline.sh invokes the orchestrator only if app.py, scripts/,
\* data/esco_chroma and pipenv all exist; the checks are made in the order
\* directory, ESCO store, pipenv, and the first one that fails ends the run
\* with its message and exit status 1, the later ones not being made.
C19_PrerequisitesChecked ==
    PipelineRun =>
        /\ sh_calls # <<>> =>
              {"app.py", "scripts", "data/esco_chroma", "pipenv"} \subseteq sh_env
        /\ \E n \in 0..3 : sh_tests = SubSeq(<<"directory", "esco", "pipenv">>, 1, n)
        /\ (sh_pc = "exited" /\ ~({"app.py", "scripts"} \subseteq sh_env)) =>
              (sh_exit = 1 /\ sh_tests = <<"directory">> /\ Last(sh_out) = "wrong_directory")
        /\ (sh_pc = "exited" /\ {"app.py", "scripts"} \subseteq sh_env
               /\ "data/esco_chroma" \notin sh_env) =>
              (sh_exit = 1 /\ sh_tests = <<"directory", "esco">>
                  /\ Last(sh_out) = "esco_missing")
        /\ (sh_pc = "exited" /\ {"app.py", "scripts", "data/esco_chroma"} \subseteq sh_env
               /\ "pipenv" \notin sh_env) =>
              (sh_exit = 1 /\ sh_tests = <<"directory", "esco", "pipenv">>
                  /\ Last(sh_out) = "pipenv_missing")

\* In the project root, with neither the ESCO store nor pipenv, the run has
\* ended at the ESCO check.
C19_Witness ==
    /\ PipelineRun
    /\ sh_env = {"app.py", "scripts"}
    /\ sh_pc = "exited"
    /\ sh_exit = 1
    /\ sh_tests = <<"directory", "esco">>

\* C20: a run of pipeline.sh started with --scrape-topic or --scrape-platform
\* and no value, or an empty one, never invokes the orchestrator and ends with
\* an error message and exit status 1; with the prerequisites in place the
\* message is the one that asks for the topic or the platform.
C20_MissingValueRejected ==
    (PipelineRun /\ Arg(sh_argv, 1) \in {"--scrape-topic", "--scrape-platform"}
        /\ (Len(sh_argv) < 2 \/ sh_argv[2] = "")) =>
        /\ sh_calls = <<>>
        /\ sh_pc = "exited" =>
              /\ sh_exit = 1
              /\ Last(sh_out) \in {"wrong_directory", "esco_missing", "pipenv_missing",
                                   "topic_missing", "platform_missing"}
              /\ {"app.py", "scripts", "data/esco_chroma", "pipenv"} \subseteq sh_env =>
                    Last(sh_out) = (IF sh_argv[1] = "--scrape-topic"
                                    THEN "topic_missing" ELSE "platform_missing")

\* --scrape-platform was given an empty value and a third argument, with the
\* prerequisites in place: the run has ended asking for the platform.
C20_Witness ==
    /\ PipelineRun
    /\ Len(sh_argv) = 3
    /\ sh_argv[1] = "--scrape-platform"
    /\ sh_argv[2] = ""
    /\ sh_pc = "exited"
    /\ sh_exit = 1
    /\ Last(sh_out) = "platform_missing"

Handled(name) == h_name = name /\ h_pc = "returned"

\* C21: for FEEDBACK_OUTPUTS, the tuple feedback_action returns through the
\* manager (set_multiple(...).get_tuple()) is element for element the 12-tuple
\* of the hand-ordered return: recommendations at position 0, keep_btn,
\* adjust_btn and reject_btn at 1 to 3, rec_index_state at 4,
\* feedback_log_state at 5, chatbox at 6, agent_memory at 7, chat_input at 8,
\* send_btn at 9, new_recs_btn at 10 and memory_display at 11.
C21_ManagerTupleAsByHand ==
    Handled("feedback_action") =>
        /\ Len(om_ret) = 12
        /\ om_ret = <<"gr.update(value=All feedback collected. Thank you!, visible=True)",
                      "gr.update(visible=False)", "gr.update(visible=False)",
                      "gr.update(visible=False)",
                      h_in.idx, h_in.feedback_log, h_in.chatbox, h_in.updated_memory,
                      "gr.update(interactive=False, value=, placeholder=Chat will be enabled...)",
                      "gr.update(visible=False, interactive=False)",
                      "gr.update(visible=True)",
                      h_in.updated_memory_editor>>
        /\ om_ret = feedback_action_by_hand(h_in)
        /\ om_schema = <<"recommendations", "keep_btn", "adjust_btn", "reject_btn",
                         "rec_index_state", "feedback_log_state", "chatbox",
                         "agent_memory", "chat_input", "send_btn", "new_recs_btn",
                         "memory_display">>
        /\ \A i \in 1..12 : om_ret[i] = om_last[om_schema[i]]

\* feedback_action has returned its tuple through the manager.
C21_Witness ==
    /\ Handled("feedback_action")
    /\ op = "get_tuple"
    /\ Len(om_ret) = 12
    /\ om_ret[7] = "chat_b"
    /\ om_ret[8] = "memory_a"

\* C28: every handler that returns through the manager has assigned every
\* name of its schema before get_tuple: no position of a returned tuple holds
\* the unset default None.
C28_NoOutputLeftUnset ==
    (h_name # "none" /\ h_pc = "returned") =>
        \A i \in 1..Len(om_ret) : om_ret[i] # None

\* C26: every entry of a user's feedback_log has a feedback_type that is one
\* of approve, adjust, reject, suggest.
C26_FeedbackTypeSupported ==
    \A u \in Users :
        \A i \in 1..Len(store[u].feedback_log) :
            store[u].feedback_log[i].feedback_type \in {"approve", "adjust", "reject", "suggest"}

IsFeedbackStep(st) == st.op = "feedback"

\* C27: one pass of collect_feedback over a batch of N recommendations appends
\* exactly N entries to the user's feedback_log, one per recommendation, in
\* the order of presentation: each process_feedback call of the pass appends
\* one entry, the k-th call for the k-th recommendation; when the pass has
\* ended there were N calls, and (unless the user emptied the log in the
\* memory editor meanwhile) the last N entries of the log are those of the
\* N recommendations in their order.
C27_OneEntryPerRecommendation ==
    /\ [][op' = "process_feedback" =>
             LET old == store[user_id].feedback_log
                 new == store'[user_id].feedback_log
                 k == Len(SelectSeq(trace, IsFeedbackStep)) + 1
             IN /\ k = idx
                /\ Len(new) = Len(old) + 1
                /\ SubSeq(new, 1, Len(old)) = old
                /\ new[Len(new)].course_id = recommendations[k].course_id]_vars
    /\ [](pc = "collected" =>
             LET N == Len(recommendations)
                 log == store[user_id].feedback_log
                 given == SelectSeq(trace, IsFeedbackStep)
             IN /\ Len(given) = N
                /\ \A k \in 1..N : given[k].course = recommendations[k].course_id
                /\ Len(live_fb) >= N =>
                      /\ Len(log) >= N
                      /\ \A k \in 1..N :
                            log[Len(log) - N + k].course_id = recommendations[k].course_id)

\* A pass over a batch of two different courses has ended with two entries in
\* the log.
C27_Witness ==
    /\ pc = "collected"
    /\ op = "process_feedback"
    /\ Len(recommendations) = 2
    /\ recommendations[1].course_id # recommendations[2].course_id
    /\ Len(store[user_id].feedback_log) = 2
    /\ store[user_id].feedback_log[1].course_id = recommendations[1].course_id

ScrapeRunning == sh_script = "scrape"

\* C22: scrape.sh exits with status 0 and the success message printed if and
\* only if the master scraper was invoked and exited with status 0; when the
\* master scraper exits with a status other than 0, scrape.sh prints the
\* failure message and exits with status 1.
C22_ScraperStatusReported ==
    ScrapeRunning =>
        /\ (sh_exit = 0 /\ Printed("completed")) <=> (sh_calls # <<>> /\ child_status = 0)
        /\ (sh_calls # <<>> /\ child_status > 0) =>
              (sh_pc = "exited" /\ sh_exit = 1 /\ Last(sh_out) = "failed"
                  /\ ~Printed("completed"))

\* The master scraper has ended with status 2: the script has printed the
\* failure message and exited with status 1.
C22_Witness ==
    /\ ScrapeRunning
    /\ Len(sh_calls) = 1
    /\ child_status = 2
    /\ sh_exit = 1
    /\ Last(sh_out) = "failed"

RECURSIVE ScanStop(_, _)
\* Reading a command line left to right from word i, a value-taking option
\* taking the next word with it: the position of the first help option or
\* unknown option; 0 if there is none.
ScanStop(argv, i) ==
    IF i > Len(argv) THEN 0
    ELSE IF argv[i] \in {"-d", "--dry-run"} THEN ScanStop(argv, i + 1)
    ELSE IF argv[i] \in {"-c", "--config", "-t", "--topic", "-p", "--platform"}
    THEN ScanStop(argv, i + 2)
    ELSE i

\* C24: scrape.sh processes its arguments left to right and stops at the
\* first help option (usage, exit status 0) or the first unknown option
\* (error, exit status 1), nothing behind it being looked at: a run whose
\* arguments hold one never checks the configuration file or pipenv and never
\* invokes the master scraper, and a help option that comes first ends it
\* with status 0.
C24_StopsAtFirstHelpOrUnknown ==
    (ScrapeRunning /\ ScanStop(sh_argv, 1) > 0) =>
        LET stop == ScanStop(sh_argv, 1)
        IN /\ sh_tests = <<>> /\ sh_calls = <<>> /\ CMD = <<>>
           /\ Len(sh_argv) - Len(sh_args) < stop
           /\ sh_pc \in {"parse", "exited"}
           /\ sh_pc = "exited" =>
                 /\ sh_args = SubSeq(sh_argv, stop, Len(sh_argv))
                 /\ IF sh_argv[stop] \in {"-h", "--help"}
                    THEN sh_exit = 0 /\ sh_out = <<"usage">>
                    ELSE sh_exit = 1 /\ sh_out = <<"unknown_option", "usage">>

\* The help option came after a dry-run option and before an unknown option:
\* the run has ended with the usage text and status 0.
C24_Witness ==
    /\ ScrapeRunning
    /\ sh_argv = <<"-d", "--help", "--bogus">>
    /\ sh_pc = "exited"
    /\ sh_exit = 0
    /\ sh_tests = <<>>
    /\ sh_out = <<"usage">>

\* C25: every iteration of the parsing loop of scrape.sh either consumes at
\* least one argument or exits the script, also when a value-taking option is
\* the last argument and has no value (the script then exits with status 1);
\* so the loop makes at most as many iterations as there are arguments.
C25_ParsingTerminates ==
    /\ [][(ScrapeRunning /\ sh_pc = "parse" /\ sh_args # <<>>) =>
             /\ \/ /\ Len(sh_args') < Len(sh_args)
                   /\ sh_args' = SubSeq(sh_args, Len(sh_args) - Len(sh_args') + 1, Len(sh_args))
                \/ sh_pc' = "exited" /\ sh_exit' \in {0, 1}
             /\ (Len(sh_args) = 1
                    /\ sh_args[1] \in {"-c", "--config", "-t", "--topic", "-p", "--platform"}) =>
                   (sh_pc' = "exited" /\ sh_exit' = 1)]_vars
    /\ [](ScrapeRunning => Len(sc_opts) <= Len(sh_argv))

\* A value-taking option was the last argument, after another option: the
\* script has exited with status 1 while parsing.
C25_Witness ==
    /\ ScrapeRunning
    /\ sh_argv = <<"-d", "-c">>
    /\ sh_args = <<"-c">>
    /\ sh_pc = "exited"
    /\ sh_exit = 1
    /\ sh_tests = <<>>

\* C29: pipeline.sh given a first argument it does not recognise reports no
\* error about it: with the prerequisites in place it prints the message of
\* the default run and invokes the orchestrator once with no arguments, as a
\* run without arguments does.
C29_UnrecognisedArgumentIgnored ==
    (PipelineRun /\ sh_argv # <<>>
        /\ sh_argv[1] \notin {"--validate-only", "--scrape", "--scrape-topic",
                              "--scrape-platform", "--help", "-h"}) =>
        /\ sh_calls \in {<<>>, <<<<"pipenv", "run", "python",
                                   "scripts/pipeline_orchestrator.py">>>>}
        /\ sh_args = sh_argv
        /\ {"app.py", "scripts", "data/esco_chroma", "pipenv"} \subseteq sh_env =>
              /\ \E n \in 0..5 :
                    sh_out = SubSeq(<<"banner", "activating", "existing_data",
                                      "completed", "output">>, 1, n)
              /\ sh_pc \in {"orchestrator", "returned", "report", "exited"} =>
                    (Len(sh_calls) = 1 /\ Printed("existing_data"))
              /\ sh_exit \in {-1, 0, child_status}
        /\ sh_calls # <<>> => orch_trace \in {SubSeq(<<"consolidate", "cleanup", "validate">>, 1, n) : n \in 0..3}

\* A run started with an unknown option and one more word has completed the
\* default pipeline.
C29_Witness ==
    /\ PipelineRun
    /\ sh_argv = <<"--bogus", "ml">>
    /\ sh_pc = "exited"
    /\ sh_exit = 0
    /\ sh_calls = <<<<"pipenv", "run", "python", "scripts/pipeline_orchestrator.py">>>>
    /\ Printed("existing_data")

====
